---- MODULE Spec2Model ----
(***************************************************************************)
(* Model of the paper-trading simulator in src/main_pyplot_version.py:     *)
(* the StockTrader ledger (buy / sell / record_daily_state) and the        *)
(* Streamlit session that drives it (one action per script run of main()). *)
(*                                                                         *)
(* Arithmetic.  The code computes in Python floats.  The model computes    *)
(* the same expressions exactly: a commission rate r stands for r/RateDen, *)
(* a price p for p yuan, and an amount of money m for m/RateDen yuan, so   *)
(* that price*amount*(1 +- rate) is the integer price*amount*(RateDen+-r). *)
(* Percentages are exact fractions [num, den] in lowest terms.             *)
(***************************************************************************)
EXTENDS Integers, Sequences, FiniteSets, TLC

VARIABLES
    trader,                 \* st.session_state.trader (a StockTrader) or NoTrader
    stock_data,             \* st.session_state.stock_data: the loaded series or NoStock
    stock_data_loaded,      \* st.session_state.stock_data_loaded
    current_day,            \* st.session_state.current_day or NoDay
    buy_executed,           \* st.session_state.buy_executed
    initial_capital_input,  \* value of the enabled "initial capital" number_input
    commission_slider,      \* value of the commission slider, in 1/RateDen
    action_radio,           \* value of the trade-action radio
    capital_input_enabled,  \* the "initial capital" input was last rendered enabled
    amount_input,           \* the rendered amount number_input: its identity and value
    last                    \* the last call or user event and what it returned

vars == <<trader, stock_data, stock_data_loaded, current_day, buy_executed,
          initial_capital_input, capital_input_enabled, commission_slider,
          action_radio, amount_input, last>>

-----------------------------------------------------------------------------
(* Program constants *)

RateDen == 10000
WindowSize == 500
DefaultCapital == 100000
MinCapital == 1000
DefaultRate == 3
MaxRate == 30

(* Bounds of the model *)

LedgerMaxTrades == 2
LedgerMaxSnaps == 2
MaxSnaps == 4
ShortDays == 3
LongExtra == 31

-----------------------------------------------------------------------------
(* Exact arithmetic helpers *)

Min(a, b) == IF a < b THEN a ELSE b
Max(a, b) == IF a > b THEN a ELSE b
Abs(a) == IF a < 0 THEN -a ELSE a

Yuan(y) == y * RateDen

RECURSIVE GCD(_, _)
GCD(a, b) == IF b = 0 THEN a ELSE GCD(b, a % b)

\* Python's int(): truncation toward zero of the quotient a / b, b > 0.
TruncDiv(a, b) == IF a >= 0 THEN a \div b ELSE -((-a) \div b)

Zero == [num |-> 0, den |-> 1]

\* The fraction a/b (b > 0) in lowest terms.
Frac(a, b) ==
    LET g == GCD(Abs(a), b)
    IN  [num |-> a \div g, den |-> b \div g]

\* (new / old - 1) * 100 as a fraction in lowest terms, old > 0.  The
\* quotient is reduced before it is multiplied by 100 so that no
\* intermediate value leaves the integer range.
PctChange(new, old) ==
    LET f == Frac(new - old, old)
        h == GCD(100, f.den)
    IN  [num |-> (100 \div h) * f.num, den |-> f.den \div h]

-----------------------------------------------------------------------------
(* StockTrader *)

NoTrader == [absent |-> TRUE]

StockTrader(initial_capital, commission_rate) ==
    [initial_capital |-> initial_capital,
     capital         |-> initial_capital,
     shares          |-> 0,
     commission_rate |-> commission_rate,
     trade_history   |-> <<>>,
     daily_state     |-> <<>>]

\* Mutant of BuyCost: the commission is left out of the cost.
BuyCost_NoCommission(t, price, amount) == price * amount * RateDen

BuyCost(t, price, amount) == price * amount * (RateDen + t.commission_rate)

\* Mutant of SellIncome: the commission is added instead of deducted.
SellIncome_CommissionAdded(t, price, amount) ==
    price * amount * (RateDen + t.commission_rate)

SellIncome(t, price, amount) == price * amount * (RateDen - t.commission_rate)

\* Mutant of buy: the cash is deducted before the cost is validated.
buy_DeductFirst(t, date, price, amount, stock_code) ==
    LET total_cost == price * amount * (RateDen + t.commission_rate)
        paid       == [t EXCEPT !.capital = t.capital - total_cost]
    IN  IF paid.capital < 0
        THEN [trader |-> paid, ok |-> FALSE, msg |-> "insufficient fund"]
        ELSE [trader |-> [paid EXCEPT
                  !.shares = t.shares + amount,
                  !.trade_history = Append(t.trade_history,
                      [date |-> date, type |-> "Buy", stock_code |-> stock_code,
                       price |-> price, amount |-> amount,
                       total_cost |-> total_cost])],
              ok |-> TRUE, msg |-> "buy ok"]

buy(t, date, price, amount, stock_code) ==
    LET total_cost == BuyCost(t, price, amount)
    IN  IF total_cost > t.capital
        THEN [trader |-> t, ok |-> FALSE, msg |-> "insufficient fund"]
        ELSE [trader |-> [t EXCEPT
                  !.capital = t.capital - total_cost,
                  !.shares = t.shares + amount,
                  !.trade_history = Append(t.trade_history,
                      [date |-> date, type |-> "Buy", stock_code |-> stock_code,
                       price |-> price, amount |-> amount,
                       total_cost |-> total_cost])],
              ok |-> TRUE, msg |-> "buy ok"]

sell(t, date, price, amount, stock_code) ==
    IF amount > t.shares
    THEN [trader |-> t, ok |-> FALSE, msg |-> "insufficient shares"]
    ELSE LET total_income == SellIncome(t, price, amount)
         IN  [trader |-> [t EXCEPT
                  !.capital = t.capital + total_income,
                  !.shares = t.shares - amount,
                  !.trade_history = Append(t.trade_history,
                      [date |-> date, type |-> "Sell", stock_code |-> stock_code,
                       price |-> price, amount |-> amount,
                       total_income |-> total_income])],
              ok |-> TRUE, msg |-> "sell ok"]

get_current_portfolio_value(t, current_price) ==
    t.capital + t.shares * Yuan(current_price)

\* Mutant of DailyReturn: the return is taken between portfolio values.
DailyReturn_OfPortfolio(t, price) ==
    IF t.daily_state = <<>>
    THEN Zero
    ELSE PctChange(t.capital + t.shares * Yuan(price),
                   t.daily_state[Len(t.daily_state)].portfolio_value)

DailyReturn(t, price) ==
    IF t.daily_state = <<>>
    THEN Zero
    ELSE PctChange(price, t.daily_state[Len(t.daily_state)].price)

CumulativeReturn(t, portfolio_value) ==
    PctChange(portfolio_value, t.initial_capital)

record_daily_state(t, date, price) ==
    LET portfolio_value   == t.capital + t.shares * Yuan(price)
        daily_return      == DailyReturn(t, price)
        cumulative_return == CumulativeReturn(t, portfolio_value)
    IN  [trader |-> [t EXCEPT !.daily_state = Append(t.daily_state,
              [date |-> date, price |-> price, capital |-> t.capital,
               shares |-> t.shares, portfolio_value |-> portfolio_value,
               daily_return |-> daily_return,
               cumulative_return |-> cumulative_return])],
         daily_return |-> daily_return,
         cumulative_return |-> cumulative_return]

\* Mutant of has_buy_transaction: only the latest trade is looked at.
has_buy_transaction_LastOnly(t) ==
    /\ t.trade_history # <<>>
    /\ t.trade_history[Len(t.trade_history)].type = "Buy"

has_buy_transaction(t) ==
    \E i \in 1..Len(t.trade_history) : t.trade_history[i].type = "Buy"

-----------------------------------------------------------------------------
(* The ledger on its own: a StockTrader constructed with some initial      *)
(* capital and commission rate and then driven by arbitrary calls of its   *)
(* three mutating methods.                                                 *)

LedgerCapitals == {Yuan(MinCapital), Yuan(DefaultCapital)}
LedgerRates == {DefaultRate}
LedgerDates == {1, 2}
LedgerPrices == {10, 12}
BuyAmounts == {1000, 10000}
SellAmounts == {-100, 0, 500}
LedgerStock == "S"

NoStock == "none"
NoDay == -1
NoAmount == [absent |-> TRUE]

SessionIdle ==
    /\ stock_data = NoStock
    /\ stock_data_loaded = FALSE
    /\ current_day = NoDay
    /\ buy_executed = FALSE
    /\ initial_capital_input = DefaultCapital
    /\ capital_input_enabled = FALSE
    /\ commission_slider = DefaultRate
    /\ action_radio = "Buy"
    /\ amount_input = NoAmount

LedgerInit ==
    /\ SessionIdle
    /\ \E c \in LedgerCapitals, r \in LedgerRates : trader = StockTrader(c, r)
    /\ last = [op |-> "init"]

SessionUnchanged ==
    UNCHANGED <<stock_data, stock_data_loaded, current_day, buy_executed,
                initial_capital_input, capital_input_enabled, commission_slider,
                action_radio, amount_input>>

BuyCall ==
    /\ Len(trader.trade_history) < LedgerMaxTrades
    /\ \E date \in LedgerDates, price \in LedgerPrices, amount \in BuyAmounts :
          LET r == buy(trader, date, price, amount, LedgerStock)
          IN  /\ trader' = r.trader
              /\ last' = [op |-> "buy", date |-> date, price |-> price,
                          amount |-> amount, ok |-> r.ok, msg |-> r.msg]
    /\ SessionUnchanged

SellCall ==
    /\ Len(trader.trade_history) < LedgerMaxTrades
    /\ \E date \in LedgerDates, price \in LedgerPrices, amount \in SellAmounts :
          LET r == sell(trader, date, price, amount, LedgerStock)
          IN  /\ trader' = r.trader
              /\ last' = [op |-> "sell", date |-> date, price |-> price,
                          amount |-> amount, ok |-> r.ok, msg |-> r.msg]
    /\ SessionUnchanged

RecordCall ==
    /\ Len(trader.daily_state) < LedgerMaxSnaps
    /\ \E date \in LedgerDates, price \in LedgerPrices :
          LET r == record_daily_state(trader, date, price)
          IN  /\ trader' = r.trader
              /\ last' = [op |-> "record_daily_state", date |-> date, price |-> price,
                          daily_return |-> r.daily_return,
                          cumulative_return |-> r.cumulative_return]
    /\ SessionUnchanged

LedgerNext == BuyCall \/ SellCall \/ RecordCall

LedgerSpec == LedgerInit /\ [][LedgerNext]_vars

-----------------------------------------------------------------------------
(* The session: main() is run from top to bottom once per user event; the  *)
(* session state and the widget values survive from run to run.  Each      *)
(* action below is one user event together with the script run it causes   *)
(* and, where the handler calls st.rerun(), the run that follows.          *)

\* The price files that can be loaded: a series shorter than the window,
\* one of exactly the window's length and one longer than it.  A bar is
\* named by its row; rows are sorted by date, so the row stands for the date.
Stocks == {"S", "E", "L"}
TotalDays(stock) ==
    CASE stock = "S" -> ShortDays
      [] stock = "E" -> WindowSize
      [] stock = "L" -> WindowSize + LongExtra
TradeDate(stock, i) == i
Close(stock, i) == IF i % 2 = 1 THEN 10 ELSE 12

CapitalChoices == {MinCapital, DefaultCapital}
RateChoices == {DefaultRate, MaxRate}
Actions == {"Buy", "Sell", "Hold"}

NoEvent == [type |-> "none", value |-> 0]
NoResult == [kind |-> "none"]

Cur ==
    [trader |-> trader, stock_data |-> stock_data,
     stock_data_loaded |-> stock_data_loaded, current_day |-> current_day,
     buy_executed |-> buy_executed,
     initial_capital_input |-> initial_capital_input,
     capital_input_enabled |-> capital_input_enabled,
     commission_slider |-> commission_slider, action_radio |-> action_radio,
     amount_input |-> amount_input]

\* The sidebar: mode change, loading, the parameter widgets, the one-time
\* construction of the trader and the reset button.
Sidebar(ss, ev) ==
    LET s1 == IF ev.type = "change_mode"
              THEN [ss EXCEPT !.stock_data_loaded = FALSE]
              ELSE ss
        s2 == IF ev.type = "load"
              THEN [s1 EXCEPT !.stock_data = ev.value, !.stock_data_loaded = TRUE]
              ELSE s1
    IN  IF ~s2.stock_data_loaded
        THEN [s2 EXCEPT !.capital_input_enabled = FALSE]
        ELSE
          LET executed == IF s2.trader # NoTrader
                          THEN has_buy_transaction(s2.trader)
                          ELSE s2.buy_executed
              widget   == IF ev.type = "set_capital" /\ ~executed
                          THEN ev.value
                          ELSE s2.initial_capital_input
              initial_capital == IF executed
                                 THEN s2.trader.initial_capital
                                 ELSE Yuan(widget)
              commission_rate == IF ev.type = "set_rate"
                                 THEN ev.value
                                 ELSE s2.commission_slider
              s3 == [s2 EXCEPT !.buy_executed = executed,
                               !.initial_capital_input = widget,
                               !.capital_input_enabled = ~executed,
                               !.commission_slider = commission_rate,
                               !.trader = IF @ = NoTrader
                                          THEN StockTrader(initial_capital, commission_rate)
                                          ELSE @]
          IN  IF ev.type = "reset"
              THEN [s3 EXCEPT !.trader = StockTrader(initial_capital, commission_rate),
                              !.current_day = WindowSize - 1,
                              !.buy_executed = FALSE]
              ELSE s3

\* Mutant of Window: the case of a series shorter than the window is missing.
Window_NoShortSeries(stored_day, total_days) ==
    LET c1 == Min(stored_day, total_days - 1)
        c2 == Max(c1, WindowSize - 1)
    IN  [current_day |-> c2,
         start_idx |-> Max(0, c2 - (WindowSize - 1)),
         end_idx |-> Min(c2 + 1, total_days)]

\* The index of the current bar and the bounds of the plotted window, as
\* main() derives them from the stored current_day on every run.
Window(stored_day, total_days) ==
    LET c1 == Min(stored_day, total_days - 1)
        c2 == Max(c1, WindowSize - 1)
        s1 == Max(0, c2 - (WindowSize - 1))
        e1 == Min(c2 + 1, total_days)
    IN  IF total_days < WindowSize
        THEN [current_day |-> total_days - 1, start_idx |-> 0, end_idx |-> total_days]
        ELSE [current_day |-> c2, start_idx |-> s1, end_idx |-> e1]

\* int(capital / (current_price * (1 + commission_rate)))
MaxBuyable(capital, current_price, commission_rate) ==
    TruncDiv(capital, current_price * (RateDen + commission_rate))

\* The trade form: the action radio, the amount input and the execute
\* button.  A number_input whose default value is below its min_value
\* raises, which ends the run before the execute button is reached; a
\* number_input whose label or default changed is a new widget and starts
\* from its default.
TradeForm(ss, ev, current_date, current_price) ==
    LET action == IF ev.type = "select_action" THEN ev.value ELSE ss.action_radio
        s1     == [ss EXCEPT !.action_radio = action]
        t      == ss.trader
    IN  IF action = "Hold"
        THEN [ss |-> [s1 EXCEPT !.amount_input = NoAmount],
              rerun |-> FALSE, result |-> NoResult]
        ELSE
          LET max_buyable == MaxBuyable(t.capital, current_price, ss.commission_slider)
              key     == IF action = "Buy" THEN <<"Buy", max_buyable>>
                                           ELSE <<"Sell", t.shares>>
              default == IF action = "Buy" THEN Max(1, max_buyable \div 2)
                                           ELSE t.shares \div 2
              kept    == ss.amount_input # NoAmount /\ ss.amount_input.key = key
              amount  == IF ev.type = "type_amount" /\ kept THEN ev.value
                         ELSE IF kept THEN ss.amount_input.value
                         ELSE default
              s2      == [s1 EXCEPT !.amount_input = [key |-> key, value |-> amount]]
          IN  IF default < 1
              THEN [ss |-> s1, rerun |-> FALSE, result |-> [kind |-> "exception"]]
              ELSE IF ev.type # "execute"
              THEN [ss |-> s2, rerun |-> FALSE, result |-> NoResult]
              ELSE IF action = "Buy"
              THEN LET r == buy(t, current_date, current_price, amount, ss.stock_data)
                   IN  [ss |-> [s2 EXCEPT !.trader = r.trader,
                                          !.buy_executed = IF r.ok THEN TRUE ELSE @],
                        rerun |-> FALSE,
                        result |-> [kind |-> "buy", ok |-> r.ok, msg |-> r.msg,
                                    price |-> current_price, amount |-> amount]]
              ELSE LET r == sell(t, current_date, current_price, amount, ss.stock_data)
                   IN  [ss |-> [s2 EXCEPT !.trader = r.trader],
                        rerun |-> FALSE,
                        result |-> [kind |-> "sell", ok |-> r.ok, msg |-> r.msg,
                                    price |-> current_price, amount |-> amount]]

\* The main panel: shown only while a series is loaded.
Main(ss, ev) ==
    IF ss.stock_data = NoStock \/ ~ss.stock_data_loaded
    THEN [ss |-> [ss EXCEPT !.amount_input = NoAmount],
          rerun |-> FALSE, result |-> NoResult]
    ELSE
      LET total_days == TotalDays(ss.stock_data)
          s1 == IF ss.current_day = NoDay
                THEN [ss EXCEPT !.current_day = Min(WindowSize - 1, total_days - 1)]
                ELSE ss
          w  == Window(s1.current_day, total_days)
          current_day_  == w.current_day
          current_date  == TradeDate(ss.stock_data, current_day_)
          current_price == Close(ss.stock_data, current_day_)
          s2 == IF current_day_ < total_days
                THEN [s1 EXCEPT !.trader =
                         record_daily_state(@, current_date, current_price).trader]
                ELSE s1
      IN  IF ev.type = "advance_day" /\ current_day_ < total_days - 1
          THEN [ss |-> [s2 EXCEPT !.current_day = @ + 1],
                rerun |-> TRUE, result |-> NoResult]
          ELSE IF ev.type = "advance_week"
          THEN [ss |-> [s2 EXCEPT !.current_day =
                           IF current_day_ + 7 < total_days
                           THEN current_day_ + 7 ELSE total_days - 1],
                rerun |-> TRUE, result |-> NoResult]
          ELSE IF ev.type = "advance_month"
          THEN [ss |-> [s2 EXCEPT !.current_day =
                           IF current_day_ + 30 < total_days
                           THEN current_day_ + 30 ELSE total_days - 1],
                rerun |-> TRUE, result |-> NoResult]
          ELSE TradeForm(s2, ev, current_date, current_price)

ScriptRun(ss, ev) == Main(Sidebar(ss, ev), ev)

\* One user event: the run it triggers and, after st.rerun(), the next run.
UserEvent(ev) ==
    \E r1 \in {ScriptRun(Cur, ev)} :
    \E r2 \in {IF r1.rerun THEN ScriptRun(r1.ss, NoEvent) ELSE r1} :
        /\ trader' = r2.ss.trader
        /\ stock_data' = r2.ss.stock_data
        /\ stock_data_loaded' = r2.ss.stock_data_loaded
        /\ current_day' = r2.ss.current_day
        /\ buy_executed' = r2.ss.buy_executed
        /\ initial_capital_input' = r2.ss.initial_capital_input
        /\ capital_input_enabled' = r2.ss.capital_input_enabled
        /\ commission_slider' = r2.ss.commission_slider
        /\ action_radio' = r2.ss.action_radio
        /\ amount_input' = r2.ss.amount_input
        /\ last' = [op |-> ev.type, value |-> ev.value, result |-> r2.result]

\* The snapshot history is capped: an event is taken only while the runs it
\* causes (n of them) still fit.
Room(n) == IF trader = NoTrader THEN TRUE ELSE Len(trader.daily_state) + n <= MaxSnaps

MainShown == stock_data # NoStock /\ stock_data_loaded

Init ==
    /\ SessionIdle
    /\ trader = NoTrader
    /\ last = [op |-> "init"]

LoadStock ==
    /\ Room(1)
    /\ \E stock \in Stocks : UserEvent([type |-> "load", value |-> stock])

ChangeMode ==
    /\ UserEvent([type |-> "change_mode", value |-> 0])

SetInitialCapital ==
    /\ Room(1)
    /\ capital_input_enabled
    /\ \E v \in CapitalChoices \ {initial_capital_input} :
          UserEvent([type |-> "set_capital", value |-> v])

SetCommission ==
    /\ Room(1)
    /\ stock_data_loaded
    /\ \E r \in RateChoices \ {commission_slider} :
          UserEvent([type |-> "set_rate", value |-> r])

ResetSimulator ==
    /\ stock_data_loaded
    /\ UserEvent([type |-> "reset", value |-> 0])

AdvanceDay ==
    /\ Room(2)
    /\ MainShown
    /\ UserEvent([type |-> "advance_day", value |-> 1])

AdvanceWeek ==
    /\ Room(2)
    /\ MainShown
    /\ UserEvent([type |-> "advance_week", value |-> 7])

AdvanceMonth ==
    /\ Room(2)
    /\ MainShown
    /\ UserEvent([type |-> "advance_month", value |-> 30])

SelectAction ==
    /\ Room(1)
    /\ MainShown
    /\ \E a \in Actions \ {action_radio} :
          UserEvent([type |-> "select_action", value |-> a])

TypeAmount ==
    /\ Room(1)
    /\ MainShown
    /\ amount_input # NoAmount
    /\ \E v \in {1, amount_input.key[2], amount_input.key[2] + 1} :
          /\ v >= 1
          /\ v # amount_input.value
          /\ UserEvent([type |-> "type_amount", value |-> v])

ExecuteTrade ==
    /\ Room(1)
    /\ MainShown
    /\ UserEvent([type |-> "execute", value |-> 0])

Next ==
    \/ LoadStock
    \/ ChangeMode
    \/ SetInitialCapital
    \/ SetCommission
    \/ ResetSimulator
    \/ AdvanceDay
    \/ AdvanceWeek
    \/ AdvanceMonth
    \/ SelectAction
    \/ TypeAmount
    \/ ExecuteTrade

Spec == Init /\ [][Next]_vars

-----------------------------------------------------------------------------
(* Properties of the ledger, checked under LedgerSpec.  In a step of       *)
(* LedgerSpec, last' describes the call the step made, trader is the       *)
(* ledger before the call and trader' the ledger after it.                 *)

IsPrefix(s, t) == Len(s) <= Len(t) /\ \A i \in 1..Len(s) : t[i] = s[i]

AppendsOne(s, t) == Len(t) = Len(s) + 1 /\ IsPrefix(s, t)

\* Exact test of  f.num / f.den = (a / b - 1) * 100  by cross-multiplication.
\* The products exceed the machine range, so they are compared modulo
\* five primes whose product (about 2 * 10^23) exceeds any of them.
Moduli == {46337, 46327, 46309, 46307, 46301}
MulMod(x, y, m) == ((x % m) * (y % m)) % m
IsPctOf(f, a, b) ==
    /\ f.den > 0
    /\ \A m \in Moduli :
          MulMod(f.num, b, m) = MulMod(MulMod(100, a - b, m), f.den, m)

\* The state of the first worked scenario: 100000 yuan at 0.03 %.
ScenarioStart(t) ==
    /\ t.capital = Yuan(100000)
    /\ t.shares = 0
    /\ t.commission_rate = 3

\* The state after its first step: 89997.00 yuan and 1000 shares.
ScenarioMiddle(t) ==
    /\ t.capital = 899970000
    /\ t.shares = 1000
    /\ t.commission_rate = 3

\* C1: every buy with price > 0 and quantity > 0 whose total cost
\* price*quantity*(1+commissionRate) does not exceed the cash succeeds,
\* deducts exactly the total cost, adds the quantity to the shares, appends
\* exactly one Buy trade and leaves cash >= 0; from 100000 at 0.03 %,
\* buying 1000 at 10.00 leaves 89997.00 and 1000 shares.
C1_BuyAccepted ==
    [][ (/\ last'.op = "buy"
         /\ last'.price > 0
         /\ last'.amount > 0
         /\ last'.price * last'.amount * (RateDen + trader.commission_rate)
               <= trader.capital)
        => (/\ last'.ok
            /\ trader'.capital = trader.capital
                  - last'.price * last'.amount * (RateDen + trader.commission_rate)
            /\ trader'.shares = trader.shares + last'.amount
            /\ AppendsOne(trader.trade_history, trader'.trade_history)
            /\ trader'.trade_history[Len(trader'.trade_history)].type = "Buy"
            /\ trader'.trade_history[Len(trader'.trade_history)].amount = last'.amount
            /\ trader'.trade_history[Len(trader'.trade_history)].price = last'.price
            /\ trader'.capital >= 0
            /\ (ScenarioStart(trader) /\ last'.amount = 1000 /\ last'.price = 10
                  => trader'.capital = 899970000 /\ trader'.shares = 1000)) ]_vars

C1_Witness ==
    /\ last.op = "buy"
    /\ last.ok
    /\ last.amount = 1000
    /\ last.price = 10
    /\ ScenarioMiddle(trader)
    /\ Len(trader.trade_history) = 1

\* The general part of C2, with the cash the example is said to leave.
SellAccepted(example_cash) ==
        (/\ last'.op = "sell"
         /\ last'.amount > 0
         /\ last'.amount <= trader.shares)
        => (/\ last'.ok
            /\ trader'.capital = trader.capital
                  + last'.price * last'.amount * (RateDen - trader.commission_rate)
            /\ trader'.shares = trader.shares - last'.amount
            /\ AppendsOne(trader.trade_history, trader'.trade_history)
            /\ trader'.trade_history[Len(trader'.trade_history)].type = "Sell"
            /\ trader'.trade_history[Len(trader'.trade_history)].amount = last'.amount
            /\ (ScenarioMiddle(trader) /\ last'.amount = 500 /\ last'.price = 12
                  => trader'.capital = example_cash /\ trader'.shares = 500))

\* C2 as stated: every sell with 0 < quantity <= shares succeeds, adds
\* price*quantity*(1-commissionRate) to the cash, subtracts the quantity from
\* the shares and appends exactly one Sell trade; from 89997.00 and 1000
\* shares, selling 500 at 12.00 leaves cash 95996.80 and 500 shares.
C2_SellAccepted_Original == [][SellAccepted(959968000)]_vars

\* C2 (amended): the same, but the example leaves cash 95995.20
\* (6000 * 0.9997 = 5998.20, not 5999.80).
C2_SellAccepted == [][SellAccepted(959952000)]_vars

C2_Witness ==
    /\ last.op = "sell"
    /\ last.ok
    /\ last.amount = 500
    /\ last.price = 12
    /\ trader.capital = 959952000
    /\ trader.shares = 500
    /\ Len(trader.trade_history) = 2

\* C3: a buy whose cost exceeds the cash and a sell whose quantity exceeds
\* the shares return a failure flag with a message and leave the whole
\* ledger (cash, shares, trade history, daily snapshots) as it was.
C3_RejectedUnchanged ==
    [][ /\ (/\ last'.op = "buy"
            /\ last'.price * last'.amount * (RateDen + trader.commission_rate)
                  > trader.capital)
           => (~last'.ok /\ last'.msg = "insufficient fund" /\ trader' = trader)
        /\ (last'.op = "sell" /\ last'.amount > trader.shares)
           => (~last'.ok /\ last'.msg = "insufficient shares" /\ trader' = trader)
        /\ (last'.op \in {"buy", "sell"} /\ ~last'.ok)
           => trader' = trader ]_vars

C3_Witness ==
    /\ last.op = "buy"
    /\ ~last.ok
    /\ trader.shares > 0
    /\ trader.trade_history # <<>>
    /\ trader.daily_state # <<>>

\* C4: sell succeeds only when 0 < quantity <= shares; for every other
\* quantity (zero, negative, or more than the shares held) it fails with
\* "insufficient shares" and appends no trade.
C4_SellValidatesQuantity ==
    [][ last'.op = "sell"
        => /\ last'.ok <=> (last'.amount > 0 /\ last'.amount <= trader.shares)
           /\ ~(last'.amount > 0 /\ last'.amount <= trader.shares)
                 => /\ last'.msg = "insufficient shares"
                    /\ trader'.trade_history = trader.trade_history ]_vars

\* C5: in every state reached from a fresh ledger by buy, sell and
\* record_daily_state calls, accepted or rejected, cash >= 0 and shares >= 0.
C5_NonNegative == trader.capital >= 0 /\ trader.shares >= 0

\* C10: record_daily_state(date, price) appends exactly one snapshot holding
\* the ledger's current cash and shares and portfolioValue = cash +
\* shares*price; it returns dailyReturnPct = 0 for the first snapshot and
\* otherwise (price / previous snapshot's price - 1) * 100, and
\* cumulativeReturnPct = (portfolioValue / initialCapital - 1) * 100; the
\* rest of the ledger is untouched.
C10_RecordDailyState ==
    [][ last'.op = "record_daily_state"
        => LET n    == Len(trader.daily_state)
               snap == trader'.daily_state[n + 1]
               pv   == trader.capital + trader.shares * last'.price * RateDen
           IN  /\ AppendsOne(trader.daily_state, trader'.daily_state)
               /\ trader' = [trader EXCEPT !.daily_state = trader'.daily_state]
               /\ snap.date = last'.date
               /\ snap.price = last'.price
               /\ snap.capital = trader.capital
               /\ snap.shares = trader.shares
               /\ snap.portfolio_value = pv
               /\ snap.daily_return = last'.daily_return
               /\ snap.cumulative_return = last'.cumulative_return
               /\ IF n = 0
                  THEN last'.daily_return.num = 0
                  ELSE IsPctOf(last'.daily_return, last'.price,
                               trader.daily_state[n].price)
               /\ IsPctOf(last'.cumulative_return, pv, trader.initial_capital) ]_vars

\* A second snapshot, taken while shares are held at a price different from
\* the previous snapshot's, with a portfolio value different from the
\* initial capital.
C10_Witness ==
    /\ last.op = "record_daily_state"
    /\ Len(trader.daily_state) = 2
    /\ trader.shares > 0
    /\ trader.daily_state[2].price # trader.daily_state[1].price
    /\ last.daily_return.num # 0
    /\ last.cumulative_return.num # 0

-----------------------------------------------------------------------------
(* Properties of the session, checked under Spec.                          *)

\* The index of the bar that is displayed and traded in the current state.
EffectiveDay == Window(current_day, TotalDays(stock_data)).current_day

AdvanceOps == {"advance_day", "advance_week", "advance_month"}

\* C6: whenever a series is shown, the stored current index satisfies
\* min(windowSize-1, totalDays-1) <= currentIndex <= totalDays-1: after
\* initialisation, after advances, after a reset and after another series
\* has been loaded, for series shorter and longer than the window.
C6_CursorInRange ==
    MainShown =>
        /\ Min(WindowSize - 1, TotalDays(stock_data) - 1) <= current_day
        /\ current_day <= TotalDays(stock_data) - 1

\* C7: each advance by 1, 7 or 30 moves the displayed and tradable index
\* from c to exactly min(c + steps, totalDays-1), never above totalDays-1,
\* and leaves it unchanged once it equals totalDays-1.
C7_AdvanceExact ==
    [][ last'.op \in AdvanceOps
        => /\ EffectiveDay' = Min(EffectiveDay + last'.value, TotalDays(stock_data) - 1)
           /\ EffectiveDay' <= TotalDays(stock_data) - 1
           /\ (EffectiveDay = TotalDays(stock_data) - 1 => EffectiveDay' = EffectiveDay) ]_vars

\* C8: for every loaded series and every stored index, the window main()
\* derives is startIndex = max(0, currentIndex-windowSize+1) and exclusive
\* endIndex = currentIndex+1 around the bar it displays; its width never
\* exceeds windowSize, equals totalDays when totalDays < windowSize, and it
\* contains the displayed bar; totalDays = windowSize = 500 gives bar 499
\* and window (0, 500).
C8_VisibleWindow ==
    MainShown =>
        LET total_days == TotalDays(stock_data)
            w == Window(current_day, total_days)
        IN  /\ total_days >= 1
            /\ w.start_idx = Max(0, w.current_day - WindowSize + 1)
            /\ w.end_idx = w.current_day + 1
            /\ w.end_idx - w.start_idx <= WindowSize
            /\ (total_days < WindowSize => w.end_idx - w.start_idx = total_days)
            /\ w.start_idx <= w.current_day
            /\ w.current_day < w.end_idx
            /\ w.end_idx <= total_days
            /\ (total_days = 500 =>
                  w.current_day = 499 /\ w.start_idx = 0 /\ w.end_idx = 500)

\* A series shorter than the window is shown while the stored index still
\* holds the value the reset button wrote.
C8_Witness ==
    /\ MainShown
    /\ TotalDays(stock_data) < WindowSize
    /\ current_day = WindowSize - 1
    /\ last.op = "reset"

\* C9: the daily-snapshot history holds one snapshot per simulated day
\* visited, in strictly increasing date order: no date appears twice,
\* whatever the user does (advance, trade, hold, advance when exhausted).
C9_OneSnapshotPerDay ==
    trader # NoTrader =>
        \A i, j \in 1..Len(trader.daily_state) :
            i < j => trader.daily_state[i].date < trader.daily_state[j].date

\* The execute-trade button of the step just taken ran an accepted buy.
AcceptedBuy(l) ==
    /\ l.op = "execute"
    /\ l.result.kind = "buy"
    /\ l.result.ok

HasBought(t) == IF t = NoTrader THEN FALSE ELSE has_buy_transaction(t)

\* C11: has_buy_transaction() is true exactly when an accepted buy has been
\* recorded: it is false for a fresh ledger (first construction or reset),
\* it becomes true only in a step whose buy was accepted (never by a
\* rejected buy, a sell or any other event), and once true it stays true
\* until the reset button replaces the ledger; meanwhile the recorded trades
\* are kept as they are and the ledger's initial capital and commission
\* rate do not change.
C11_HasBuyTransaction ==
    [][ /\ last'.op = "reset" => ~HasBought(trader')
        /\ last'.op # "reset"
              => (HasBought(trader') <=> (HasBought(trader) \/ AcceptedBuy(last')))
        /\ (trader = NoTrader /\ trader' # NoTrader)
              => trader'.trade_history = <<>>
        /\ (HasBought(trader) /\ last'.op # "reset")
              => /\ HasBought(trader')
                 /\ IsPrefix(trader.trade_history, trader'.trade_history)
                 /\ trader'.initial_capital = trader.initial_capital
                 /\ trader'.commission_rate = trader.commission_rate ]_vars

\* A sell has been accepted after a buy: the latest trade is a Sell and the
\* predicate is still true.
C11_Witness ==
    /\ HasBought(trader)
    /\ last.op = "execute"
    /\ last.result.kind = "sell"
    /\ last.result.ok
    /\ trader.trade_history[Len(trader.trade_history)].type = "Sell"
    /\ buy_executed

\* C12: the maximum buyable quantity offered in the amount input,
\* floor(cash / (currentPrice * (1 + r))) with r the rate selected on the
\* slider, is affordable in every session state in which the trade form is
\* shown: the ledger accepts a buy of that quantity at the current price.
C12_MaxBuyableAffordable ==
    MainShown =>
        LET current_price == Close(stock_data, EffectiveDay)
            max_buyable   == MaxBuyable(trader.capital, current_price, commission_slider)
        IN  buy(trader, TradeDate(stock_data, EffectiveDay), current_price,
                max_buyable, stock_data).ok

====
